---- MODULE Spec2Model ----
(***************************************************************************)
(* Model of api.RouterAPI (src/api/api.go): the HTTP handlers of the       *)
(* kubernetes-router, the mode registry they resolve a router.Service in,  *)
(* and the calls they make on that service.                                *)
(*                                                                         *)
(* A handler is modelled in two steps where it calls the service: the      *)
(* handler's code up to the call (one action named after the handler) and  *)
(* the code after the call has returned (the action with the suffix Ret).  *)
(* The service is the environment: what it returns is chosen by \E.        *)
(* Several requests are served at once, one per element of Reqs.           *)
(***************************************************************************)
EXTENDS Integers, Sequences, FiniteSets, TLC

VARIABLES DefaultMode, IngressServices, reqs

vars == <<DefaultMode, IngressServices, reqs>>

----------------------------------------------------------------------------
(* Bounds *)

\* The longest list of addresses or of CNAMEs a service returns.
MaxListLen == 1

\* Names a mode may be registered under.
ModeNames == {"a", "b"}

\* Values of the {mode} path variable; "" is the route without a mode.
RequestModes == {""} \cup ModeNames

\* Optional capabilities a registered service may implement.
Capabilities == {"TLS", "CNAME", "Healthcheck"}

\* Concurrent requests.
Reqs == {"r1", "r2"}

AppNames == {"app"}
InstanceNames == {"", "blue"}
Targets == {"", "app2"}
Prefixes == {"", "custom"}
Domains == {"", "example.com"}
Routes == {"", "/", "/admin"}
HeaderOptsValues == {<<>>, <<"k=v">>}
CertNames == {"cert"}
Cnames == {"cname"}
OptKeys == {"opt1", "opt2", "opt3"}

\* Messages of the errors a service returns, as sequences of characters.
MsgExists == <<"x", " ", "e", "x", "i", "s", "t", "s", ".">>
MsgExist == <<"e", "x", "i", "s", "t">>
MsgBoom == <<"b", "o", "o", "m">>
ProviderMessages == {MsgExists, MsgExist, MsgBoom}

----------------------------------------------------------------------------
(* net/http status codes used by the handlers *)

StatusOK == 200
StatusBadRequest == 400
StatusNotFound == 404
StatusConflict == 409
StatusInternalServerError == 500

----------------------------------------------------------------------------
(* Errors *)

NoError == [kind |-> "nil", status |-> 0, text |-> <<>>]

httpError(status, body) == [kind |-> "httpError", status |-> status, text |-> body]

\* An error returned by a method of a router.Service.
ProviderError(msg) == [kind |-> "provider", status |-> 0, text |-> msg]

ProviderErrors == {ProviderError(m) : m \in ProviderMessages}

ProviderResults == {NoError} \cup ProviderErrors

\* The result of a call that has not returned.
Pending == [kind |-> "pending", status |-> 0, text |-> <<>>]

\* The error of json Decode on a malformed body.
DecodeError == [kind |-> "decode", status |-> 0, text |-> <<>>]

\* errors.New("error parsing request")
ParseError == [kind |-> "parse", status |-> 0, text |-> <<>>]

EmptyTarget == <<"e", "m", "p", "t", "y", " ", "t", "a", "r", "g", "e", "t">>

\* strings.Contains
Contains(s, substr) ==
    \E i \in 0..(Len(s) - Len(substr)) : SubSeq(s, i + 1, i + Len(substr)) = substr

Exists == <<"e", "x", "i", "s", "t", "s">>

----------------------------------------------------------------------------
(* http.ResponseWriter *)

NoBody == [kind |-> "none"]

NewResponse == [status |-> 0, body |-> NoBody, contentType |-> ""]

\* The first WriteHeader of a response decides its status.
WriteHeader(w, code) == IF w.status = 0 THEN [w EXCEPT !.status = code] ELSE w

\* Write sends the header with StatusOK when none was written.
Write(w, data) == [WriteHeader(w, StatusOK) EXCEPT !.body = data]

Text(s) == [kind |-> "text", text |-> s]

----------------------------------------------------------------------------
(* The registry and the requests *)

\* A registered router.Service: its identity and the optional interfaces
\* (router.ServiceTLS, router.ServiceCNAME, router.HealthcheckableService)
\* it implements.
Service(name, caps) == [name |-> name, caps |-> caps]

NoService == [name |-> "<nil>", caps |-> {}]

Registries ==
    UNION {[dom -> SUBSET Capabilities] : dom \in SUBSET ModeNames}

InstanceIDs == [AppName : AppNames, InstanceName : InstanceNames]

\* instanceID(r): the app name of the path and the X-Router-Instance header
\* ("" when the header is absent).
instanceID(name, header) == [AppName |-> name, InstanceName |-> header]

\* ingressService without the default mode for the empty mode.
ingressService_NoDefault(mode) ==
    IF mode \notin DOMAIN IngressServices
    THEN [svc |-> NoService, err |-> httpError(StatusNotFound, <<>>)]
    ELSE [svc |-> Service(mode, IngressServices[mode]), err |-> NoError]

\* ingressService that serves a mode that is not registered with the
\* service of the default mode.
ingressService_Fallback(mode) ==
    LET m == IF mode = "" \/ mode \notin DOMAIN IngressServices THEN DefaultMode ELSE mode
    IN  IF m \notin DOMAIN IngressServices
        THEN [svc |-> NoService, err |-> httpError(StatusNotFound, <<>>)]
        ELSE [svc |-> Service(m, IngressServices[m]), err |-> NoError]

\* a.ingressService(mode)
ingressService(mode) ==
    LET m == IF mode = "" THEN DefaultMode ELSE mode
    IN  IF m \notin DOMAIN IngressServices
        THEN [svc |-> NoService, err |-> httpError(StatusNotFound, <<>>)]
        ELSE [svc |-> Service(m, IngressServices[m]), err |-> NoError]

NoArg == [kind |-> "none"]

\* A request at the moment its handler starts.
NewRequest(op, mode, id, arg) ==
    [pc |-> "running", op |-> op, mode |-> mode, id |-> id, arg |-> arg,
     svc |-> NoService, calls |-> <<>>, err |-> NoError, w |-> NewResponse]

IdleRequest == [NewRequest("", "", instanceID("", ""), NoArg) EXCEPT !.pc = "idle"]

\* The handler returns err.
Return(q, err) == [q EXCEPT !.pc = "done", !.err = err]

\* The handler panics (a failed type assertion without the ok result).
Panic(q) == [q EXCEPT !.pc = "panic"]

\* The handler calls method of svc and waits for it to return.
Invoke(q, svc, method, args) ==
    [q EXCEPT !.pc = "calling", !.svc = svc,
              !.calls = Append(@, [svc |-> svc.name, method |-> method, args |-> args,
                                   result |-> Pending])]

\* The call the request q waits for has returned err.
Returned(q, err) == [q EXCEPT !.calls[Len(q.calls)].result = err]

\* The slot r is free for a new request.
Free(r) == reqs[r].pc = "idle"

\* The request of r waits for a call of the handler op to return.
Calling(r, op) == reqs[r].pc = "calling" /\ reqs[r].op = op

\* The next state of the request of r is q.
Becomes(r, q) ==
    /\ reqs' = [reqs EXCEPT ![r] = q]
    /\ UNCHANGED <<DefaultMode, IngressServices>>

Init ==
    /\ IngressServices \in Registries
    /\ DefaultMode \in ModeNames
    /\ reqs = [r \in Reqs |-> IdleRequest]

----------------------------------------------------------------------------
(* Handlers *)

getBackend(r, mode, id) ==
    /\ Free(r)
    /\ LET q == NewRequest("getBackend", mode, id, NoArg)
           res == ingressService(mode)
       IN  IF res.err # NoError
           THEN Becomes(r, Return(q, res.err))
           ELSE Becomes(r, Invoke(q, res.svc, "GetAddresses", <<id>>))

getBackendRet(r, addrs, err) ==
    /\ Calling(r, "getBackend")
    /\ LET q == Returned(reqs[r], err)
       IN  IF err # NoError
           THEN Becomes(r, Return(q, err))
           ELSE LET rsp == [kind |-> "getBackendResponse",
                            Address |-> IF Len(addrs) > 0 THEN addrs[1] ELSE "",
                            Addresses |-> addrs]
                IN  Becomes(r, Return([q EXCEPT !.w = Write(@, rsp)], NoError))

\* A field the JSON body does not have.
Omitted == "<omitted>"

\* The body of addBackend: malformed, or an object with or without the
\* fields Domain and Route.
OptsBodies ==
    [ok : {FALSE}, Domain : {Omitted}, Route : {Omitted}]
        \cup [ok : {TRUE}, Domain : Domains \cup {Omitted}, Route : Routes \cup {Omitted}]

\* json Decode of body into routerOpts: a field of the body replaces the
\* field of routerOpts, a field the body omits leaves it as it is.
DecodeOpts(routerOpts, body) ==
    [routerOpts EXCEPT !.Domain = IF body.Domain = Omitted THEN @ ELSE body.Domain,
                       !.Route = IF body.Route = Omitted THEN @ ELSE body.Route]

\* DefaultRoute that does not look at the Route the request gives.
DefaultRoute_Overwrite(routerOpts) ==
    IF routerOpts.Domain # ""
    THEN [routerOpts EXCEPT !.Route = "/"]
    ELSE routerOpts

\* The Route of a backend that has a Domain and no Route is "/".
DefaultRoute(routerOpts) ==
    IF routerOpts.Domain # "" /\ routerOpts.Route = ""
    THEN [routerOpts EXCEPT !.Route = "/"]
    ELSE routerOpts

addBackend(r, mode, id, headerOpts, body) ==
    /\ Free(r)
    /\ LET q == NewRequest("addBackend", mode, id,
                           [kind |-> "addBackend", HeaderOpts |-> headerOpts, body |-> body])
           seeded == [Domain |-> "", Route |-> "", HeaderOpts |-> headerOpts]
           routerOpts == DefaultRoute(DecodeOpts(seeded, body))
           res == ingressService(mode)
       IN  IF ~body.ok
           THEN Becomes(r, Return(q, DecodeError))
           ELSE IF res.err # NoError
           THEN Becomes(r, Return(q, res.err))
           ELSE Becomes(r, Invoke(q, res.svc, "Create", <<id, routerOpts>>))

addBackendRet(r, err) ==
    /\ Calling(r, "addBackend")
    /\ Becomes(r, Return(Returned(reqs[r], err), err))

updateBackend(r, mode, id) ==
    /\ Free(r)
    /\ Becomes(r, Return(NewRequest("updateBackend", mode, id, NoArg), NoError))

removeBackend(r, mode, id) ==
    /\ Free(r)
    /\ LET q == NewRequest("removeBackend", mode, id, NoArg)
           res == ingressService(mode)
       IN  IF res.err # NoError
           THEN Becomes(r, Return(q, res.err))
           ELSE Becomes(r, Invoke(q, res.svc, "Remove", <<id>>))

removeBackendRet(r, err) ==
    /\ Calling(r, "removeBackend")
    /\ Becomes(r, Return(Returned(reqs[r], err), err))

----------------------------------------------------------------------------
(* Routes *)

ExtraDatas == {"", "extra"}

\* The body of addRoutes: malformed, or a router.RoutesRequestData.
RoutesBodies ==
    [ok : {FALSE}, Prefix : {""}, ExtraData : {""}]
        \cup [ok : {TRUE}, Prefix : Prefixes, ExtraData : ExtraDatas]

\* addRoutes without the test of the prefix.
addRoutes_AnyPrefix(r, mode, id, body) ==
    /\ Free(r)
    /\ LET q == NewRequest("addRoutes", mode, id, [kind |-> "addRoutes", body |-> body])
           routesData == [Prefix |-> body.Prefix, ExtraData |-> body.ExtraData]
           res == ingressService(mode)
       IN  IF ~body.ok
           THEN Becomes(r, Return(q, DecodeError))
           ELSE IF res.err # NoError
           THEN Becomes(r, Return(q, res.err))
           ELSE Becomes(r, Invoke(q, res.svc, "Update", <<id, routesData.ExtraData>>))

addRoutes(r, mode, id, body) ==
    /\ Free(r)
    /\ LET q == NewRequest("addRoutes", mode, id, [kind |-> "addRoutes", body |-> body])
           routesData == [Prefix |-> body.Prefix, ExtraData |-> body.ExtraData]
           res == ingressService(mode)
       IN  IF ~body.ok
           THEN Becomes(r, Return(q, DecodeError))
           ELSE IF routesData.Prefix # ""
           THEN Becomes(r, Return(q, NoError))
           ELSE IF res.err # NoError
           THEN Becomes(r, Return(q, res.err))
           ELSE Becomes(r, Invoke(q, res.svc, "Update", <<id, routesData.ExtraData>>))

addRoutesRet(r, err) ==
    /\ Calling(r, "addRoutes")
    /\ Becomes(r, Return(Returned(reqs[r], err), err))

removeRoutes(r, mode, id) ==
    /\ Free(r)
    /\ Becomes(r, Return(NewRequest("removeRoutes", mode, id, NoArg), NoError))

\* getRoutes that resolves the service of the mode as the other handlers do.
getRoutes_Resolve(r, mode, id) ==
    /\ Free(r)
    /\ LET q == NewRequest("getRoutes", mode, id, NoArg)
           resp == [kind |-> "resp", Addresses |-> <<>>]
           res == ingressService(mode)
       IN  IF res.err # NoError
           THEN Becomes(r, Return(q, res.err))
           ELSE Becomes(r, Return([q EXCEPT !.w = Write(@, resp)], NoError))

getRoutes(r, mode, id) ==
    /\ Free(r)
    /\ LET q == NewRequest("getRoutes", mode, id, NoArg)
           resp == [kind |-> "resp", Addresses |-> <<>>]
       IN  Becomes(r, Return([q EXCEPT !.w = Write(@, resp)], NoError))

----------------------------------------------------------------------------
(* Swap *)

\* The body of swap: malformed, or a swapReq.
SwapBodies == [ok : {FALSE}, Target : {""}] \cup [ok : {TRUE}, Target : Targets]

\* swapDst that loses the instance name.
swapDst_NoInstance(src, target) == [InstanceName |-> "", AppName |-> target]

\* dst of swap: the target app, with the instance name of src.
swapDst(src, target) == [InstanceName |-> src.InstanceName, AppName |-> target]

swap(r, mode, id, body) ==
    /\ Free(r)
    /\ LET q == NewRequest("swap", mode, id, [kind |-> "swap", body |-> body])
           req == [Target |-> body.Target]
           res == ingressService(mode)
           src == id
           dst == swapDst(src, req.Target)
       IN  IF ~body.ok
           THEN Becomes(r, Return(q, ParseError))
           ELSE IF req.Target = ""
           THEN Becomes(r, Return(q, httpError(StatusBadRequest, EmptyTarget)))
           ELSE IF res.err # NoError
           THEN Becomes(r, Return(q, res.err))
           ELSE Becomes(r, Invoke(q, res.svc, "Swap", <<src, dst>>))

swapRet(r, err) ==
    /\ Calling(r, "swap")
    /\ Becomes(r, Return(Returned(reqs[r], err), err))

----------------------------------------------------------------------------
(* Info *)

\* The maps from options to descriptions a service supports.
SupportedOptionsMaps == UNION {[dom -> {"", "custom"}] : dom \in SUBSET OptKeys}

\* The maps router.DescribedOptions() may be.
DefaultDescription(k) ==
    CASE k = "opt1" -> "default1"
      [] k = "opt2" -> "default2"
      [] OTHER -> "default3"

DescribedOptionsMaps == {[k \in dom |-> DefaultDescription(k)] : dom \in SUBSET OptKeys}

\* m[k] of a Go map: the zero value for a key the map does not have.
MapGet(m, k) == IF k \in DOMAIN m THEN m[k] ELSE ""

\* DescribeOptions over the described options too.
DescribeOptions_AllDescribed(opts, allOpts) ==
    [k \in DOMAIN opts \cup DOMAIN allOpts |->
        IF MapGet(opts, k) = "" THEN MapGet(allOpts, k) ELSE opts[k]]

\* The loop of info over the supported options.
DescribeOptions(opts, allOpts) ==
    [k \in DOMAIN opts |-> IF opts[k] = "" THEN MapGet(allOpts, k) ELSE opts[k]]

info(r, mode) ==
    /\ Free(r)
    /\ LET q == NewRequest("info", mode, instanceID("", ""), NoArg)
           res == ingressService(mode)
       IN  IF res.err # NoError
           THEN Becomes(r, Return(q, res.err))
           ELSE Becomes(r, Invoke(q, res.svc, "SupportedOptions", <<>>))

infoRet(r, opts, allOpts) ==
    /\ Calling(r, "info")
    /\ LET q == [Returned(reqs[r], NoError) EXCEPT
                     !.arg = [kind |-> "info", opts |-> opts, allOpts |-> allOpts]]
           body == [kind |-> "info", info |-> DescribeOptions(opts, allOpts)]
       IN  Becomes(r, Return([q EXCEPT !.w = Write(@, body)], NoError))

----------------------------------------------------------------------------
(* Healthcheck *)

Working == Text("WORKING")

\* strings.Join(errors, " - ")
Join(errors) == [kind |-> "joined", parts |-> errors]

\* fmt.Sprintf("failed to check IngressService %v: %v", mode, err)
FailedToCheck(mode, err) == [label |-> "failed to check IngressService", mode |-> mode, err |-> err.text]

\* The state of the loop of Healthcheck: the modes it has visited, the
\* mode whose service it is checking, and the errors it has collected.
HealthLoop(visited, current, errors) ==
    [kind |-> "Healthcheck", visited |-> visited, current |-> current, errors |-> errors]

Healthcheck(r) ==
    /\ Free(r)
    /\ LET q == NewRequest("Healthcheck", "", instanceID("", ""), HealthLoop({}, "", <<>>))
       IN  Becomes(r, [q EXCEPT !.pc = "range"])

\* One iteration of the loop, over a mode of the map in any order.
HealthcheckRange(r, mode) ==
    /\ reqs[r].pc = "range" /\ reqs[r].op = "Healthcheck"
    /\ mode \in DOMAIN IngressServices \ reqs[r].arg.visited
    /\ LET q == reqs[r]
           svc == Service(mode, IngressServices[mode])
       IN  IF "Healthcheck" \in svc.caps
           THEN Becomes(r, Invoke([q EXCEPT !.arg.current = mode], svc, "Healthcheck", <<>>))
           ELSE Becomes(r, [q EXCEPT !.arg.visited = @ \cup {mode}])

\* HealthcheckRet that keeps the last error only.
HealthcheckRet_LastError(r, err) ==
    /\ Calling(r, "Healthcheck")
    /\ LET q == Returned(reqs[r], err)
           mode == q.arg.current
           errors == IF err # NoError
                     THEN <<FailedToCheck(mode, err)>>
                     ELSE q.arg.errors
       IN  Becomes(r, [q EXCEPT !.pc = "range",
                                !.arg = HealthLoop(q.arg.visited \cup {mode}, "", errors)])

HealthcheckRet(r, err) ==
    /\ Calling(r, "Healthcheck")
    /\ LET q == Returned(reqs[r], err)
           mode == q.arg.current
           errors == IF err # NoError
                     THEN Append(q.arg.errors, FailedToCheck(mode, err))
                     ELSE q.arg.errors
       IN  Becomes(r, [q EXCEPT !.pc = "range",
                                !.arg = HealthLoop(q.arg.visited \cup {mode}, "", errors)])

\* The code after the loop.
HealthcheckEnd(r) ==
    /\ reqs[r].pc = "range" /\ reqs[r].op = "Healthcheck"
    /\ reqs[r].arg.visited = DOMAIN IngressServices
    /\ LET q == reqs[r]
           errors == q.arg.errors
       IN  IF Len(errors) > 0
           THEN Becomes(r, [q EXCEPT !.pc = "done",
                                     !.w = Write(WriteHeader(@, StatusInternalServerError), Join(errors))])
           ELSE Becomes(r, [q EXCEPT !.pc = "done", !.w = Write(@, Working)])

----------------------------------------------------------------------------
(* TLS *)

CertDatas == {"pem"}

\* The body of addCertificate: malformed, or a router.CertData.
CertBodies == [ok : {FALSE}, cert : {""}] \cup [ok : {TRUE}, cert : CertDatas]

addCertificate(r, mode, id, certName, body) ==
    /\ Free(r)
    /\ LET q == NewRequest("addCertificate", mode, id,
                           [kind |-> "addCertificate", certName |-> certName, body |-> body])
           cert == body.cert
           res == ingressService(mode)
       IN  IF ~body.ok
           THEN Becomes(r, Return(q, DecodeError))
           ELSE IF res.err # NoError
           THEN Becomes(r, Return(q, res.err))
           ELSE IF "TLS" \notin res.svc.caps
           THEN Becomes(r, Panic([q EXCEPT !.svc = res.svc]))
           ELSE Becomes(r, Invoke(q, res.svc, "AddCertificate", <<id, certName, cert>>))

addCertificateRet(r, err) ==
    /\ Calling(r, "addCertificate")
    /\ Becomes(r, Return(Returned(reqs[r], err), err))

getCertificate(r, mode, id, certName) ==
    /\ Free(r)
    /\ LET q == NewRequest("getCertificate", mode, id,
                           [kind |-> "getCertificate", certName |-> certName])
           res == ingressService(mode)
       IN  IF res.err # NoError
           THEN Becomes(r, Return(q, res.err))
           ELSE IF "TLS" \notin res.svc.caps
           THEN Becomes(r, Panic([q EXCEPT !.svc = res.svc]))
           ELSE Becomes(r, Invoke(q, res.svc, "GetCertificate", <<id, certName>>))

getCertificateRet(r, cert, err) ==
    /\ Calling(r, "getCertificate")
    /\ LET q == Returned(reqs[r], err)
       IN  IF err # NoError
           THEN Becomes(r, Return([q EXCEPT !.w = WriteHeader(@, StatusNotFound)], err))
           ELSE Becomes(r, Return([q EXCEPT !.w = Write([@ EXCEPT !.contentType = "application/json"],
                                                          [kind |-> "cert", cert |-> cert])],
                                  NoError))

removeCertificate(r, mode, id, certName) ==
    /\ Free(r)
    /\ LET q == NewRequest("removeCertificate", mode, id,
                           [kind |-> "removeCertificate", certName |-> certName])
           res == ingressService(mode)
       IN  IF res.err # NoError
           THEN Becomes(r, Return(q, res.err))
           ELSE IF "TLS" \notin res.svc.caps
           THEN Becomes(r, Panic([q EXCEPT !.svc = res.svc]))
           ELSE Becomes(r, Invoke(q, res.svc, "RemoveCertificate", <<id, certName>>))

removeCertificateRet(r, err) ==
    /\ Calling(r, "removeCertificate")
    /\ LET q == Returned(reqs[r], err)
       IN  IF err # NoError
           THEN Becomes(r, Return([q EXCEPT !.w = WriteHeader(@, StatusNotFound)], err))
           ELSE Becomes(r, Return(q, err))

----------------------------------------------------------------------------
(* CNAME *)

\* setCnameStatus with the two WriteHeader the other way round.
setCnameStatus_NotFoundFirst(w, err) ==
    LET w1 == WriteHeader(w, StatusNotFound)
    IN  IF Contains(err.text, Exists) THEN WriteHeader(w1, StatusConflict) ELSE w1

\* The status setCname writes for the error err of SetCname.
setCnameStatus(w, err) ==
    LET w1 == IF Contains(err.text, Exists) THEN WriteHeader(w, StatusConflict) ELSE w
    IN  WriteHeader(w1, StatusNotFound)

setCname(r, mode, id, cname) ==
    /\ Free(r)
    /\ LET q == NewRequest("setCname", mode, id, [kind |-> "setCname", cname |-> cname])
           res == ingressService(mode)
       IN  IF res.err # NoError
           THEN Becomes(r, Return(q, res.err))
           ELSE IF "CNAME" \notin res.svc.caps
           THEN Becomes(r, Panic([q EXCEPT !.svc = res.svc]))
           ELSE Becomes(r, Invoke(q, res.svc, "SetCname", <<id, cname>>))

setCnameRet(r, err) ==
    /\ Calling(r, "setCname")
    /\ LET q == Returned(reqs[r], err)
       IN  IF err # NoError
           THEN Becomes(r, Return([q EXCEPT !.w = setCnameStatus(@, err)], err))
           ELSE Becomes(r, Return(q, err))

getCnames(r, mode, id) ==
    /\ Free(r)
    /\ LET q == NewRequest("getCnames", mode, id, NoArg)
           res == ingressService(mode)
       IN  IF res.err # NoError
           THEN Becomes(r, Return(q, res.err))
           ELSE IF "CNAME" \notin res.svc.caps
           THEN Becomes(r, Panic([q EXCEPT !.svc = res.svc]))
           ELSE Becomes(r, Invoke(q, res.svc, "GetCnames", <<id>>))

getCnamesRet(r, cnames, err) ==
    /\ Calling(r, "getCnames")
    /\ LET q == Returned(reqs[r], err)
       IN  IF err # NoError
           THEN Becomes(r, Return(q, err))
           ELSE Becomes(r, Return([q EXCEPT !.w = Write([@ EXCEPT !.contentType = "application/json"],
                                                          [kind |-> "cnames", cnames |-> cnames])],
                                  NoError))

unsetCname(r, mode, id, cname) ==
    /\ Free(r)
    /\ LET q == NewRequest("unsetCname", mode, id, [kind |-> "unsetCname", cname |-> cname])
           res == ingressService(mode)
       IN  IF res.err # NoError
           THEN Becomes(r, Return(q, res.err))
           ELSE IF "CNAME" \notin res.svc.caps
           THEN Becomes(r, Panic([q EXCEPT !.svc = res.svc]))
           ELSE Becomes(r, Invoke(q, res.svc, "UnsetCname", <<id, cname>>))

unsetCnameRet(r, err) ==
    /\ Calling(r, "unsetCname")
    /\ Becomes(r, Return(Returned(reqs[r], err), err))

----------------------------------------------------------------------------
(* Supports *)

supportTLS(r, mode) ==
    /\ Free(r)
    /\ LET q == NewRequest("supportTLS", mode, instanceID("", ""), NoArg)
           res == ingressService(mode)
       IN  IF res.err # NoError
           THEN Becomes(r, Return(q, res.err))
           ELSE IF "TLS" \notin res.svc.caps
           THEN Becomes(r, Return([q EXCEPT !.svc = res.svc,
                                            !.w = Write(WriteHeader(@, StatusNotFound),
                                                        Text("No TLS Capabilities"))], NoError))
           ELSE Becomes(r, Return([q EXCEPT !.svc = res.svc, !.w = Write(@, Text("OK"))], NoError))

supportCNAME(r, mode) ==
    /\ Free(r)
    /\ LET q == NewRequest("supportCNAME", mode, instanceID("", ""), NoArg)
           res == ingressService(mode)
       IN  IF res.err # NoError
           THEN Becomes(r, Return(q, res.err))
           ELSE IF "CNAME" \notin res.svc.caps
           THEN Becomes(r, Return([q EXCEPT !.svc = res.svc,
                                            !.w = Write(WriteHeader(@, StatusNotFound),
                                                        Text("No CNAME Capabilities"))], NoError))
           ELSE Becomes(r, Return([q EXCEPT !.svc = res.svc, !.w = Write(@, Text("OK"))], NoError))

\* The handlers of /support/info and /support/prefix.
supportStatic(r, mode, op) ==
    /\ Free(r)
    /\ LET q == NewRequest(op, mode, instanceID("", ""), NoArg)
       IN  Becomes(r, Return([q EXCEPT !.w = WriteHeader(@, StatusOK)], NoError))

----------------------------------------------------------------------------
(* Specifications *)

RECURSIVE Lists(_, _)
\* The lists of at most n elements of S.
Lists(S, n) ==
    IF n = 0 THEN {<<>>}
    ELSE LET shorter == Lists(S, n - 1)
         IN  shorter \cup {Append(l, x) : l \in shorter, x \in S}

Addresses == {"10.0.0.1", "10.0.0.2"}
AddressLists == Lists(Addresses, MaxListLen)
CnameLists == Lists(Cnames, MaxListLen)

\* The server has sent the response of r (or has recovered from the panic
\* of its handler), and the slot serves the next request.
Respond(r) ==
    /\ reqs[r].pc \in {"done", "panic"}
    /\ Becomes(r, IdleRequest)

\* All the inputs of the handlers.
AllInputs ==
    [ids |-> InstanceIDs, headerOpts |-> HeaderOptsValues, optsBodies |-> OptsBodies,
     routesBodies |-> RoutesBodies, swapBodies |-> SwapBodies, certBodies |-> CertBodies,
     results |-> ProviderResults, supportedOptions |-> SupportedOptionsMaps,
     describedOptions |-> DescribedOptionsMaps]

\* A request of the slot r starts, with inputs of in.
Request(r, in) ==
    \E mode \in RequestModes, id \in in.ids :
        \/ getBackend(r, mode, id)
        \/ \E headerOpts \in in.headerOpts, body \in in.optsBodies :
              addBackend(r, mode, id, headerOpts, body)
        \/ updateBackend(r, mode, id)
        \/ removeBackend(r, mode, id)
        \/ getRoutes(r, mode, id)
        \/ \E body \in in.routesBodies : addRoutes(r, mode, id, body)
        \/ removeRoutes(r, mode, id)
        \/ \E body \in in.swapBodies : swap(r, mode, id, body)
        \/ info(r, mode)
        \/ \E certName \in CertNames, body \in in.certBodies :
              addCertificate(r, mode, id, certName, body)
        \/ \E certName \in CertNames : getCertificate(r, mode, id, certName)
        \/ \E certName \in CertNames : removeCertificate(r, mode, id, certName)
        \/ \E cname \in Cnames : setCname(r, mode, id, cname)
        \/ getCnames(r, mode, id)
        \/ \E cname \in Cnames : unsetCname(r, mode, id, cname)
        \/ supportTLS(r, mode)
        \/ supportCNAME(r, mode)
        \/ \E op \in {"supportInfo", "supportPrefix"} : supportStatic(r, mode, op)
        \/ Healthcheck(r)

\* The call the request of the slot r waits for returns, with a result of in.
Continue(r, in) ==
    \/ \E err \in in.results :
        \/ \E addrs \in AddressLists : getBackendRet(r, addrs, err)
        \/ addBackendRet(r, err)
        \/ removeBackendRet(r, err)
        \/ addRoutesRet(r, err)
        \/ swapRet(r, err)
        \/ addCertificateRet(r, err)
        \/ \E cert \in CertDatas : getCertificateRet(r, cert, err)
        \/ removeCertificateRet(r, err)
        \/ setCnameRet(r, err)
        \/ \E cnames \in CnameLists : getCnamesRet(r, cnames, err)
        \/ unsetCnameRet(r, err)
        \/ HealthcheckRet(r, err)
    \/ \E opts \in in.supportedOptions, allOpts \in in.describedOptions :
          infoRet(r, opts, allOpts)

\* The loop of Healthcheck of the slot r goes on or ends.
Loop(r) ==
    \/ \E mode \in DOMAIN IngressServices : HealthcheckRange(r, mode)
    \/ HealthcheckEnd(r)

\* The slot r takes a step.
Serve(r, in) == Request(r, in) \/ Continue(r, in) \/ Loop(r) \/ Respond(r)

\* One request at a time.
Next == Serve("r1", AllInputs)

Spec == Init /\ [][Next]_vars

\* Requests served concurrently, by services that implement all of the
\* optional interfaces or none, with one input of each kind.
ConcurrentRegistries ==
    UNION {[dom -> {{}, Capabilities}] : dom \in SUBSET ModeNames}

InitConcurrent == Init /\ IngressServices \in ConcurrentRegistries

ConcurrentInputs ==
    [ids |-> {instanceID("app", "blue")}, headerOpts |-> {<<>>},
     optsBodies |-> {[ok |-> TRUE, Domain |-> "example.com", Route |-> Omitted]},
     routesBodies |-> [ok : {TRUE}, Prefix : Prefixes, ExtraData : {"extra"}],
     swapBodies |-> [ok : {TRUE}, Target : Targets], certBodies |-> [ok : {TRUE}, cert : CertDatas],
     results |-> {NoError, ProviderError(MsgExists)},
     supportedOptions |-> {[k \in {"opt1", "opt2"} |-> IF k = "opt1" THEN "" ELSE "custom"]},
     describedOptions |-> {[k \in {"opt1", "opt3"} |-> DefaultDescription(k)]}]

NextConcurrent == \E r \in Reqs : Serve(r, ConcurrentInputs)

SpecConcurrent == InitConcurrent /\ [][NextConcurrent]_vars

\* Health requests alone, over registries of up to three services.
HealthcheckModeNames == ModeNames \cup {"c"}

HealthcheckRegistries ==
    UNION {[dom -> SUBSET Capabilities] : dom \in SUBSET HealthcheckModeNames}

InitHealthcheck ==
    /\ IngressServices \in HealthcheckRegistries
    /\ DefaultMode \in ModeNames
    /\ reqs = [r \in Reqs |-> IdleRequest]

NextHealthcheck ==
    \/ Healthcheck("r1")
    \/ Loop("r1")
    \/ \E err \in ProviderResults : HealthcheckRet("r1", err)
    \/ Respond("r1")

SpecHealthcheck == InitHealthcheck /\ [][NextHealthcheck]_vars
----------------------------------------------------------------------------
(* Properties *)

\* The mode a request is served in: the default mode when it names none.
ResolvedMode(q) == IF q.mode = "" THEN DefaultMode ELSE q.mode

NotFound == httpError(StatusNotFound, <<>>)

TLSHandlers == {"addCertificate", "getCertificate", "removeCertificate"}
CNAMEHandlers == {"setCname", "getCnames", "unsetCname"}

\* The service of the request q is registered and lacks the optional
\* interface the handler of q needs, and the body of q is well formed.
LacksCapability(q) ==
    /\ q.pc # "idle"
    /\ q.op \in TLSHandlers \cup CNAMEHandlers
    /\ ResolvedMode(q) \in DOMAIN IngressServices
    /\ q.op \in TLSHandlers => "TLS" \notin IngressServices[ResolvedMode(q)]
    /\ q.op \in CNAMEHandlers => "CNAME" \notin IngressServices[ResolvedMode(q)]
    /\ q.op = "addCertificate" => q.arg.body.ok

\* C1: a TLS or CNAME operation on a service that lacks the capability ends
\* with a NotFound error, never in a panic, and calls no method of a service.
C1_CapabilityAbsence ==
    \A r \in Reqs :
        LacksCapability(reqs[r]) =>
            /\ reqs[r].pc = "done"
            /\ reqs[r].err = NotFound
            /\ reqs[r].calls = <<>>

\* C2: swap with an empty target fails with BadRequest and never calls Swap;
\* swap with a target T in a registered mode calls Swap once, on the service
\* of the mode, with src and dst = {AppName: T, InstanceName: src.InstanceName}.
C2_Swap ==
    \A r \in Reqs :
        LET q == reqs[r]
        IN  (q.op = "swap" /\ q.arg.body.ok) =>
                /\ q.arg.body.Target = "" =>
                      /\ q.pc = "done"
                      /\ q.err.kind = "httpError" /\ q.err.status = StatusBadRequest
                      /\ q.calls = <<>>
                /\ (q.arg.body.Target # "" /\ ResolvedMode(q) \in DOMAIN IngressServices) =>
                      /\ Len(q.calls) = 1
                      /\ q.calls[1].method = "Swap"
                      /\ q.calls[1].svc = ResolvedMode(q)
                      /\ q.calls[1].args =
                            <<q.id, [AppName |-> q.arg.body.Target,
                                     InstanceName |-> q.id.InstanceName]>>

C2_Witness ==
    \E r \in Reqs :
        /\ reqs[r].op = "swap" /\ reqs[r].pc = "done"
        /\ reqs[r].mode = "" /\ reqs[r].id.InstanceName = "blue"
        /\ Len(reqs[r].calls) = 1 /\ reqs[r].calls[1].args[2].AppName = "app2"

\* C3: when SetCname fails, the status of the response is Conflict if the
\* message of the error contains "exists" and NotFound if it does not.
C3_SetCnameStatus ==
    \A r \in Reqs :
        LET q == reqs[r]
        IN  (q.op = "setCname" /\ q.pc = "done" /\ Len(q.calls) = 1
                /\ q.calls[1].result # NoError) =>
                /\ Contains(q.calls[1].result.text, Exists) => q.w.status = StatusConflict
                /\ ~Contains(q.calls[1].result.text, Exists) => q.w.status = StatusNotFound

C3_Witness ==
    \E r \in Reqs :
        /\ reqs[r].op = "setCname" /\ reqs[r].pc = "done"
        /\ Len(reqs[r].calls) = 1 /\ reqs[r].calls[1].result = ProviderError(MsgExists)
        /\ reqs[r].w.status = StatusConflict

\* What the resolution of a mode gives.
Resolution ==
    \A mode \in RequestModes :
        LET m == IF mode = "" THEN DefaultMode ELSE mode
            res == ingressService(mode)
        IN  /\ m \notin DOMAIN IngressServices =>
                  res.err = NotFound /\ res.svc = NoService
            /\ m \in DOMAIN IngressServices =>
                  res.err = NoError /\ res.svc = Service(m, IngressServices[m])

\* C4: the empty mode resolves as the default mode does, a mode that is not
\* registered (the default mode of an empty mode too) fails with NotFound,
\* and no step changes the registry or the default mode.
C4_Resolve ==
    /\ [](ingressService("") = ingressService(DefaultMode) /\ Resolution)
    /\ [][IngressServices' = IngressServices /\ DefaultMode' = DefaultMode]_vars

C4_Witness ==
    \E r \in Reqs :
        /\ reqs[r].mode = "" /\ reqs[r].pc = "calling"
        /\ reqs[r].svc.name = DefaultMode
        /\ DOMAIN IngressServices # ModeNames

\* C5: addRoutes with a well-formed body and a prefix returns success and
\* calls no service; without a prefix, in a registered mode, it calls
\* Update(id, ExtraData) once on the service of the mode and returns what
\* the call returns.
C5_AddRoutes ==
    \A r \in Reqs :
        LET q == reqs[r]
        IN  (q.op = "addRoutes" /\ q.arg.body.ok) =>
                /\ q.arg.body.Prefix # "" =>
                      q.pc = "done" /\ q.err = NoError /\ q.calls = <<>>
                /\ (q.arg.body.Prefix = "" /\ ResolvedMode(q) \in DOMAIN IngressServices) =>
                      /\ Len(q.calls) = 1
                      /\ q.calls[1].method = "Update"
                      /\ q.calls[1].svc = ResolvedMode(q)
                      /\ q.calls[1].args = <<q.id, q.arg.body.ExtraData>>
                      /\ q.pc = "done" => q.err = q.calls[1].result

C5_Witness ==
    \E r \in Reqs :
        /\ reqs[r].op = "addRoutes" /\ reqs[r].pc = "done"
        /\ reqs[r].arg.body.ok /\ reqs[r].arg.body.Prefix = "custom"
        /\ ResolvedMode(reqs[r]) \in DOMAIN IngressServices

\* The services of the registry that implement Healthcheck.
Healthcheckable == {m \in DOMAIN IngressServices : "Healthcheck" \in IngressServices[m]}

\* The calls of Healthcheck the request q has made on the service of m.
Probes(q, m) ==
    {i \in 1..Len(q.calls) : q.calls[i].svc = m /\ q.calls[i].method = "Healthcheck"}

\* The services whose Healthcheck has failed for the request q.
Failed(q) == {m \in Healthcheckable : \E i \in Probes(q, m) : q.calls[i].result # NoError}

\* C6: a health request calls Healthcheck once on every service of the
\* registry that implements it, whether or not an earlier one has failed;
\* it answers InternalServerError exactly when a call has failed, with one
\* "failed to check" fragment for each service that failed, naming its mode,
\* and answers WORKING when none has.
C6_Healthcheck ==
    \A r \in Reqs :
        LET q == reqs[r]
        IN  q.op = "Healthcheck" =>
                /\ \A m \in Healthcheckable : Cardinality(Probes(q, m)) <= 1
                /\ \A i \in 1..Len(q.calls) : q.calls[i].svc \in Healthcheckable
                /\ q.pc = "done" =>
                      /\ \A m \in Healthcheckable : Cardinality(Probes(q, m)) = 1
                      /\ (q.w.status = StatusInternalServerError) <=> (Failed(q) # {})
                      /\ Failed(q) # {} =>
                            /\ q.w.body.kind = "joined"
                            /\ Len(q.w.body.parts) = Cardinality(Failed(q))
                            /\ \A m \in Failed(q) :
                                  Cardinality({i \in 1..Len(q.w.body.parts) :
                                                  q.w.body.parts[i].mode = m}) = 1
                      /\ Failed(q) = {} => q.w.status = StatusOK /\ q.w.body = Working

C6_Witness ==
    \E r \in Reqs :
        /\ reqs[r].op = "Healthcheck" /\ reqs[r].pc = "done"
        /\ Len(reqs[r].calls) = 3
        /\ reqs[r].calls[1].result # NoError
        /\ reqs[r].calls[2].result = NoError /\ reqs[r].calls[3].result = NoError
        /\ reqs[r].w.status = StatusInternalServerError
        /\ Len(reqs[r].w.body.parts) = 1
        /\ reqs[r].w.body.parts[1].mode = reqs[r].calls[1].svc

\* The field f of the body b of addBackend, "" when the body omits it.
Given(b, f) == IF b[f] = Omitted THEN "" ELSE b[f]

\* C7: the options addBackend passes to Create have the Route "/" when the
\* request gives a Domain and no Route, the Route of the request when it
\* gives one, and no Route when it gives neither.
C7_DefaultRoute ==
    \A r \in Reqs :
        LET q == reqs[r]
        IN  (q.op = "addBackend" /\ q.calls # <<>>) =>
                LET opts == q.calls[1].args[2]
                    domain == Given(q.arg.body, "Domain")
                    route == Given(q.arg.body, "Route")
                IN  /\ q.calls[1].method = "Create"
                    /\ (domain # "" /\ route = "") => opts.Route = "/"
                    /\ route # "" => opts.Route = route
                    /\ (domain = "" /\ route = "") => opts.Route = ""
                    /\ opts.Domain = domain
                    /\ opts.HeaderOpts = q.arg.HeaderOpts

C7_Witness ==
    \E r \in Reqs :
        /\ reqs[r].op = "addBackend" /\ reqs[r].calls # <<>>
        /\ reqs[r].arg.body.Domain = "example.com" /\ reqs[r].arg.body.Route = Omitted
        /\ reqs[r].calls[1].args[2].Route = "/"

\* C8: info answers with the keys of SupportedOptions, each with the
\* description of the service or, when that is empty, with the described
\* option of that key; an option that is only described is left out.
C8_Info ==
    \A r \in Reqs :
        LET q == reqs[r]
        IN  (q.op = "info" /\ q.pc = "done" /\ q.calls # <<>>) =>
                LET opts == q.arg.opts
                    allOpts == q.arg.allOpts
                    result == q.w.body.info
                IN  /\ q.err = NoError
                    /\ DOMAIN result = DOMAIN opts
                    /\ \A k \in DOMAIN opts :
                          result[k] = IF opts[k] # "" THEN opts[k]
                                      ELSE IF k \in DOMAIN allOpts THEN allOpts[k]
                                      ELSE ""

C8_Witness ==
    \E r \in Reqs :
        /\ reqs[r].op = "info" /\ reqs[r].pc = "done" /\ reqs[r].calls # <<>>
        /\ reqs[r].arg.opts = [k \in {"opt1", "opt2"} |-> IF k = "opt1" THEN "" ELSE "custom"]
        /\ DOMAIN reqs[r].arg.allOpts = {"opt1", "opt3"}
        /\ reqs[r].w.body.info =
              [k \in {"opt1", "opt2"} |-> IF k = "opt1" THEN "default1" ELSE "custom"]

\* C9: getRoutes returns success with an empty list of addresses and calls
\* no service, whatever the other requests have done.
C9_GetRoutes ==
    \A r \in Reqs :
        LET q == reqs[r]
        IN  q.op = "getRoutes" =>
                /\ q.pc = "done"
                /\ q.err = NoError
                /\ q.w.status = StatusOK
                /\ q.w.body = [kind |-> "resp", Addresses |-> <<>>]
                /\ q.calls = <<>>

C9_Witness ==
    \E r, o \in Reqs :
        /\ reqs[r].op = "getRoutes" /\ reqs[r].pc = "done"
        /\ reqs[o].op = "addBackend" /\ reqs[o].pc = "done" /\ reqs[o].err = NoError
        /\ reqs[o].calls # <<>> /\ reqs[o].id = reqs[r].id
        /\ ResolvedMode(reqs[o]) = ResolvedMode(reqs[r])

\* C10: a request other than Healthcheck calls at most one method, on the
\* service registered under its mode (the default mode when it names none),
\* and none when that mode is not registered, whatever the other requests do.
C10_Confinement ==
    \A r \in Reqs :
        LET q == reqs[r]
        IN  (q.pc # "idle" /\ q.op # "Healthcheck") =>
                /\ Len(q.calls) <= 1
                /\ \A i \in 1..Len(q.calls) :
                      /\ ResolvedMode(q) \in DOMAIN IngressServices
                      /\ q.calls[i].svc = ResolvedMode(q)
                /\ ResolvedMode(q) \notin DOMAIN IngressServices => q.calls = <<>>

C10_Witness ==
    \E r, o \in Reqs :
        /\ reqs[r].pc = "calling" /\ reqs[o].pc = "calling"
        /\ reqs[r].op = "removeBackend" /\ reqs[o].op = "swap"
        /\ reqs[r].mode = "" /\ reqs[r].calls[1].svc = DefaultMode
        /\ reqs[o].calls[1].svc # DefaultMode
====
